---- MODULE Spec2Model ----
(***************************************************************************)
(* State-machine model of the two programs of the repository:              *)
(*   src/src/main.py  MainWindow  (connect, VIN query, one asynchronous    *)
(*                                 watch delivered through a Qt signal)    *)
(*   src/main.py      OBDMonitor  (connect toggle, 1 s polling timer)      *)
(* A behaviour is a run of one of the two programs (variable prog).        *)
(*                                                                         *)
(* The obd library is the external collaborator of both programs.  Its     *)
(* calls are modelled by their outcomes: a call either returns or raises,  *)
(* a query returns a value or a null response, an Async object runs one    *)
(* thread that queries its command, calls the callback and checks its      *)
(* running flag once per iteration, and stop() clears the flag and joins   *)
(* the thread.                                                             *)
(***************************************************************************)
EXTENDS Integers, Sequences, FiniteSets, TLC

\* ---------------------------------------------------------------- bounds
MaxConn == 2        \* connection objects created in one run
MaxWatch == 2       \* Async objects created in one run
MaxQueries == 2     \* queries issued by watch threads in one run

\* f"{host}:{port}" of the host and port inputs, left at their defaults
connection_string == "192.168.0.10:35000"
AUTO_CONNECT == TRUE
\* supported_commands of a connection, VIN left out, in combo box order
SupportedLists == {<< >>, <<"RPM", "SPEED">>}

NumMetrics == 2     \* entries of metric_widgets (8 in the source)

\* the names of metric_widgets, in insertion order
MetricNames == <<"RPM", "Speed", "Coolant Temp", "Intake Temp", "Load",
                 "Fuel Level", "Throttle Pos", "Timing Advance">>
Metrics == {MetricNames[i] : i \in 1..NumMetrics}

\* response.value: every command of metric_widgets decodes to a Pint quantity
\* (magnitude in hundredths)
Values == {[kind |-> "quantity", magnitude |-> 72549, units |-> "rpm"]}
\* no entry of self.metrics under a name
Unset == [kind |-> "unset", magnitude |-> 0, units |-> ""]
\* what a query ends in: a response with a value, a null response, or an
\* exception (no reply in time, or the connection is lost)
Outcomes == [res : {"value"}, value : Values]
            \cup [res : {"null", "timeout", "transport"}, value : {Unset}]
Raises == {"timeout", "transport"}
\* the text of a label: a number with one decimal (in tenths) and a string
Text(t) == [num |-> 0, text |-> t]

NoConn == [st |-> "free", port |-> "none"]
\* self.async_connection when it holds an Async object whose thread was never
\* started (watch() or start() raised): stop() on it returns at once
NotStarted == 0 - 1
NoWatch == [cmd |-> "none", port |-> "none", running |-> FALSE, th |-> "none"]
\* the text of data_label is "Data: " and what follows it: a value that
\* update_data_label shows, or N/A
DataNA == [cmd |-> "N/A", w |-> 0, k |-> 0]

VARIABLES
    prog,               \* which program runs: "MainWindow" or "OBDMonitor"
    \* ---- MainWindow fields (src/src/main.py)
    connection,         \* self.connection: 0 is None, else a connection id
    async_connection,   \* self.async_connection: 0 is None, else a watch id
    data_log,           \* self.data_log
    status_label, data_label,
    connect_button, disconnect_button, start_button, stop_button,
    metrics_combo,      \* [items, index], index 0-based, -1 when empty
    \* ---- MainWindow environment
    guiPc,              \* where the GUI thread is
    closing,            \* disconnect_from_adapter was entered by closeEvent
    timerPending,       \* QTimer.singleShot(500, connect_to_adapter) not fired
    conns,              \* connection objects ever created
    nConns,
    watches,            \* Async objects ever created
    nWatches,
    sigq,               \* data_updated emissions queued for the GUI thread
    nDone,              \* watch queries completed
    \* ---- MainWindow history
    shown,              \* values update_data_label has shown, in order
    nValues,            \* watch queries completed with a value
    afterStop,          \* callbacks since stop() last returned (-1: not stopped)
    \* ---- OBDMonitor fields (src/main.py); connection, conns, nConns and
    \* status_label are the ones above
    connected,          \* self.connected
    metrics,            \* self.metrics: name -> value, Unset when absent
    metric_labels,      \* text of self.metric_widgets[name]['label']
    timer,              \* self.timer.isActive()
    connect_button_text,
    \* ---- OBDMonitor history
    lastCall            \* the last handler run, and what its queries did

mwFields == <<connection, async_connection, data_log, status_label, data_label,
              connect_button, disconnect_button, start_button, stop_button,
              metrics_combo>>
mwEnv == <<guiPc, closing, timerPending, conns, nConns, watches, nWatches,
           sigq, nDone>>
mwHist == <<shown, nValues, afterStop>>
mwVars == <<mwFields, mwEnv, mwHist>>

\* variables of OBDMonitor alone, and of MainWindow alone
monOnly == <<connected, metrics, metric_labels, timer, connect_button_text,
             lastCall>>
mwOnly == <<async_connection, data_log, data_label, connect_button,
            disconnect_button, start_button, stop_button, metrics_combo,
            guiPc, closing, timerPending, watches, nWatches, sigq, nDone,
            shown, nValues, afterStop>>

vars == <<prog, mwVars, monOnly>>

\* the running program is MainWindow / OBDMonitor; the fields of the other
\* program stay as they are
InMainWindow == prog = "MainWindow" /\ UNCHANGED <<prog, monOnly>>
InOBDMonitor == prog = "OBDMonitor" /\ UNCHANGED <<prog, mwOnly>>

\* ------------------------------------------------------------ MainWindow

currentText ==
    IF metrics_combo.index >= 0 /\ metrics_combo.index < Len(metrics_combo.items)
    THEN metrics_combo.items[metrics_combo.index + 1]
    ELSE ""

Last(s) == s[Len(s)]

MainWindowInit ==
    /\ connection = 0
    /\ async_connection = 0
    /\ data_log = << >>
    /\ status_label = "Status: Disconnected"
    /\ data_label = DataNA
    /\ connect_button = TRUE
    /\ disconnect_button = FALSE
    /\ start_button = FALSE
    /\ stop_button = FALSE
    /\ metrics_combo = [items |-> <<"Select a metric">>, index |-> 0]
    /\ guiPc = "idle"
    /\ closing = FALSE
    /\ timerPending = AUTO_CONNECT
    /\ conns = [c \in 1..MaxConn |-> NoConn]
    /\ nConns = 0
    /\ watches = [w \in 1..MaxWatch |-> NoWatch]
    /\ nWatches = 0
    /\ sigq = << >>
    /\ nDone = 0
    /\ shown = << >>
    /\ nValues = 0
    /\ afterStop = -1

\* The user picks an entry of the metrics combo box.
select_metric(i) ==
    /\ InMainWindow
    /\ guiPc = "idle"
    /\ i \in 0..(Len(metrics_combo.items) - 1)
    /\ metrics_combo' = [metrics_combo EXCEPT !.index = i]
    /\ UNCHANGED <<connection, async_connection, data_log, status_label,
                   data_label, connect_button, disconnect_button,
                   start_button, stop_button>>
    /\ UNCHANGED <<mwEnv, mwHist>>

\* combo box after clear() and addItem() of every supported command
ComboOf(sup) == [items |-> sup, index |-> IF Len(sup) = 0 THEN -1 ELSE 0]

\* connect_to_adapter up to the point where it blocks in the VIN query (or
\* to its end when no query is sent).  processEvents() delivers the queued
\* data_updated emissions.  out is the outcome of obd.OBD(connection_string):
\* "raise", "failed" (is_connected() False) or "connected".
connect_to_adapter(out, supVin, sup) ==
    /\ InMainWindow
    /\ guiPc = "idle"
    /\ shown' = shown \o sigq
    /\ sigq' = << >>
    /\ UNCHANGED <<async_connection, data_log, stop_button,
                   closing, watches, nWatches, nDone, afterStop,
                   nValues>>
    /\ \/ /\ out = "raise"
          /\ status_label' = "Status: Disconnected"
          /\ data_label' = IF sigq = << >> THEN data_label ELSE Last(sigq)
          /\ UNCHANGED <<connection, conns, nConns, connect_button,
                         disconnect_button, start_button, metrics_combo, guiPc>>
       \/ /\ out = "failed"
          /\ nConns < MaxConn
          /\ nConns' = nConns + 1
          /\ conns' = [conns EXCEPT ![nConns + 1] =
                          [st |-> "failed", port |-> connection_string]]
          /\ connection' = nConns + 1
          /\ status_label' = "Status: Connection Failed"
          /\ data_label' = IF sigq = << >> THEN data_label ELSE Last(sigq)
          /\ UNCHANGED <<connect_button, disconnect_button,
                         start_button, metrics_combo, guiPc>>
       \/ /\ out = "connected"
          /\ nConns < MaxConn
          /\ nConns' = nConns + 1
          /\ conns' = [conns EXCEPT ![nConns + 1] =
                          [st |-> "open", port |-> connection_string]]
          /\ connection' = nConns + 1
          /\ status_label' = "Status: Connected"
          /\ data_label' = IF sigq = << >> THEN data_label ELSE Last(sigq)
          /\ connect_button' = FALSE
          /\ disconnect_button' = TRUE
          /\ start_button' = TRUE
          /\ IF supVin
             THEN /\ guiPc' = "connect_vin"
                  /\ UNCHANGED metrics_combo
             ELSE /\ metrics_combo' = ComboOf(sup)
                  /\ UNCHANGED guiPc

\* the Connect button
connect_click(out, supVin, sup) ==
    /\ connect_button
    /\ connect_to_adapter(out, supVin, sup)
    /\ UNCHANGED timerPending

\* QTimer.singleShot(500, self.connect_to_adapter)
auto_connect(out, supVin, sup) ==
    /\ timerPending
    /\ timerPending' = FALSE
    /\ connect_to_adapter(out, supVin, sup)

\* The VIN query returns (resp is "null", "value" or "raise") and
\* connect_to_adapter runs to its end.
connect_vin_done(resp, sup) ==
    /\ InMainWindow
    /\ guiPc = "connect_vin"
    /\ guiPc' = "idle"
    /\ \/ /\ resp = "value"
          /\ metrics_combo' = ComboOf(sup)
          /\ UNCHANGED status_label
       \/ /\ resp = "null"
          /\ metrics_combo' = ComboOf(sup)
          /\ UNCHANGED status_label
       \/ /\ resp = "raise"
          /\ status_label' = "Status: Disconnected"
          /\ UNCHANGED metrics_combo
    /\ UNCHANGED <<connection, async_connection, data_log, data_label,
                   connect_button, disconnect_button, start_button,
                   stop_button>>
    /\ UNCHANGED <<closing, timerPending, conns, nConns, watches, nWatches,
                   sigq, nDone, shown, afterStop,
                   nValues>>

\* Async.stop(): clear the running flag; the caller then joins the thread.
AsyncStop(ws, a) == IF a <= 0 THEN ws ELSE [ws EXCEPT ![a].running = FALSE]

\* join() in stop() returns: the loop of watch a, between two iterations,
\* has found the flag cleared and its thread has ended
Joined(a) == a > 0 => watches[a].th = "sleep" /\ ~watches[a].running

\* an Async object after stop(): no thread, and no reference to it is kept
Stopped == [cmd |-> "none", port |-> "none", running |-> FALSE, th |-> "dead"]
AsyncJoin(ws, a) == IF a <= 0 THEN ws ELSE [ws EXCEPT ![a] = Stopped]

\* start_monitoring up to its return or, when the try block raises, up to
\* the call of stop_monitoring in the handler.  out is the outcome of the
\* try block: "ok"; "raise_ctor", obd.commands[...] or obd.Async(...) raises
\* and self.async_connection is not assigned; "raise_start", watch() or
\* start() raises after the assignment.
start_monitoring(out) ==
    /\ InMainWindow
    /\ guiPc = "idle"
    /\ start_button
    /\ IF connection = 0 \/ conns[connection].st # "open"
          \/ currentText = "Select a metric" \/ currentText = ""
       THEN UNCHANGED <<mwFields, mwEnv, mwHist>>
       ELSE /\ UNCHANGED <<connection, data_log, status_label, data_label, connect_button, disconnect_button,
                           metrics_combo>>
            /\ UNCHANGED <<closing, timerPending, conns, nConns, sigq,
                           nDone, shown, nValues>>
            /\ \/ /\ out = "ok"
                  /\ nWatches < MaxWatch
                  /\ nWatches' = nWatches + 1
                  /\ watches' = [watches EXCEPT ![nWatches + 1] =
                         [cmd |-> currentText, port |-> conns[connection].port,
                          running |-> TRUE, th |-> "sleep"]]
                  /\ async_connection' = nWatches + 1
                  /\ start_button' = FALSE
                  /\ stop_button' = TRUE
                  /\ afterStop' = -1
                  /\ UNCHANGED guiPc
               \/ /\ out = "raise_ctor"
                  /\ guiPc' = "stop_join"
                  /\ watches' = AsyncStop(watches, async_connection)
                  /\ UNCHANGED <<async_connection, nWatches,
                                 start_button, stop_button, afterStop>>
               \/ /\ out = "raise_start"
                  /\ async_connection' = NotStarted
                  /\ guiPc' = "stop_join"
                  /\ UNCHANGED <<watches, nWatches, start_button, stop_button,
                                 afterStop>>

\* stop_monitoring from the Stop Monitoring button, up to the join in stop()
stop_monitoring ==
    /\ InMainWindow
    /\ guiPc = "idle"
    /\ stop_button
    /\ guiPc' = "stop_join"
    /\ watches' = AsyncStop(watches, async_connection)
    /\ UNCHANGED <<mwFields, mwHist>>
    /\ UNCHANGED <<closing, timerPending, conns, nConns, nWatches, sigq,
                   nDone>>

\* stop_monitoring: stop() has returned, rest of the method
stop_monitoring_return ==
    /\ InMainWindow
    /\ guiPc = "stop_join"
    /\ Joined(async_connection)
    /\ guiPc' = "idle"
    /\ async_connection' = 0
    /\ start_button' = TRUE
    /\ stop_button' = FALSE
    /\ data_label' = DataNA
    /\ afterStop' = IF async_connection > 0 THEN 0 ELSE afterStop
    /\ watches' = AsyncJoin(watches, async_connection)
    /\ UNCHANGED <<connection, data_log, status_label, connect_button,
                   disconnect_button, metrics_combo>>
    /\ UNCHANGED <<closing, timerPending, conns, nConns, nWatches, sigq,
                   nDone, shown, nValues>>

\* disconnect_from_adapter up to the join in stop(); byClose: called by
\* closeEvent instead of the Disconnect button
disconnect_from_adapter(byClose) ==
    /\ InMainWindow
    /\ guiPc = "idle"
    /\ byClose \/ disconnect_button
    /\ guiPc' = "disconnect_join"
    /\ closing' = byClose
    /\ watches' = AsyncStop(watches, async_connection)
    /\ UNCHANGED <<mwFields, mwHist>>
    /\ UNCHANGED <<timerPending, conns, nConns, nWatches, sigq, nDone>>

\* disconnect_return without the assignment self.async_connection = None
disconnect_return_keepsWatch ==
    /\ InMainWindow
    /\ guiPc = "disconnect_join"
    /\ Joined(async_connection)
    /\ guiPc' = IF closing THEN "exited" ELSE "idle"
    /\ conns' = IF connection # 0
                THEN [conns EXCEPT ![connection].st = "closed"] ELSE conns
    /\ connection' = 0
    /\ status_label' = "Status: Disconnected"
    /\ connect_button' = TRUE
    /\ disconnect_button' = FALSE
    /\ start_button' = FALSE
    /\ stop_button' = FALSE
    /\ data_label' = DataNA
    /\ metrics_combo' = [metrics_combo EXCEPT
                            !.index = IF Len(metrics_combo.items) = 0
                                      THEN -1 ELSE 0]
    /\ afterStop' = IF async_connection > 0 THEN 0 ELSE afterStop
    /\ watches' = AsyncJoin(watches, async_connection)
    /\ UNCHANGED <<async_connection, data_log, closing, timerPending, nConns,
                   nWatches, sigq, nDone, shown, nValues>>

\* disconnect_from_adapter: stop() has returned, rest of the method; after
\* closeEvent the event loop ends and the process exits
disconnect_return ==
    /\ InMainWindow
    /\ guiPc = "disconnect_join"
    /\ Joined(async_connection)
    /\ guiPc' = IF closing THEN "exited" ELSE "idle"
    /\ async_connection' = 0
    /\ conns' = IF connection # 0
                THEN [conns EXCEPT ![connection].st = "closed"] ELSE conns
    /\ connection' = 0
    /\ status_label' = "Status: Disconnected"
    /\ connect_button' = TRUE
    /\ disconnect_button' = FALSE
    /\ start_button' = FALSE
    /\ stop_button' = FALSE
    /\ data_label' = DataNA
    /\ metrics_combo' = [metrics_combo EXCEPT
                            !.index = IF Len(metrics_combo.items) = 0
                                      THEN -1 ELSE 0]
    /\ afterStop' = IF async_connection > 0 THEN 0 ELSE afterStop
    /\ watches' = AsyncJoin(watches, async_connection)
    /\ UNCHANGED <<data_log, closing, timerPending, nConns, nWatches, sigq,
                   nDone, shown, nValues>>

\* the queued data_updated signal reaches its slot in the GUI thread
update_data_label ==
    /\ InMainWindow
    /\ guiPc = "idle"
    /\ sigq # << >>
    /\ data_label' = Head(sigq)
    /\ shown' = Append(shown, Head(sigq))
    /\ sigq' = Tail(sigq)
    /\ UNCHANGED <<connection, async_connection, data_log, status_label,
                   connect_button, disconnect_button, start_button,
                   stop_button, metrics_combo>>
    /\ UNCHANGED <<guiPc, closing, timerPending, conns, nConns, watches,
                   nWatches, nDone, afterStop,
                   nValues>>

\* watch queries begun
nQueries == nDone + Cardinality({w \in 1..MaxWatch : watches[w].th = "query"})

\* ---- the thread of watch w (started by async_connection.start())

watchFrame == <<connection, async_connection, status_label, data_label, connect_button, disconnect_button, start_button,
                stop_button, metrics_combo, guiPc, closing,
                timerPending, conns, nConns, nWatches, shown>>

\* the loop finds the running flag set and sends the query of its command
watch_query(w) ==
    /\ InMainWindow
    /\ guiPc # "exited"
    /\ watches[w].th = "sleep"
    /\ watches[w].running
    /\ nQueries < MaxQueries
    /\ watches' = [watches EXCEPT ![w].th = "query"]
    /\ UNCHANGED <<watchFrame, data_log, sigq, nDone, afterStop,
                   nValues>>

\* str(response.value)
Str(r) == [cmd |-> r.cmd, w |-> r.w, k |-> r.k]

\* the response of the query that watch w completes as number k
Response(w, isNull, k) == [null |-> isNull, cmd |-> watches[w].cmd, w |-> w, k |-> k]

\* on_data_received with the newest value put first (insert(0, ...) in place
\* of append, for the log and for the emission)
on_data_received_lifo(w, isNull) ==
    /\ InMainWindow
    /\ guiPc # "exited"
    /\ watches[w].th = "query"
    /\ nDone' = nDone + 1
    /\ nValues' = IF isNull THEN nValues ELSE nValues + 1
    /\ IF ~Response(w, isNull, nValues + 1).null
       THEN /\ data_log' = <<Str(Response(w, isNull, nValues + 1))>> \o data_log
            /\ sigq' = <<Str(Response(w, isNull, nValues + 1))>> \o sigq
       ELSE UNCHANGED <<data_log, sigq>>
    /\ watches' = [watches EXCEPT ![w].th = "sleep"]
    /\ afterStop' = IF afterStop >= 0 /\ afterStop < 2 THEN afterStop + 1 ELSE afterStop
    /\ UNCHANGED watchFrame

\* the query of watch w completes and its thread calls the callback with the
\* response, a null response or a value
on_data_received(w, isNull) ==
    /\ InMainWindow
    /\ guiPc # "exited"
    /\ watches[w].th = "query"
    /\ nDone' = nDone + 1
    /\ nValues' = IF isNull THEN nValues ELSE nValues + 1
    /\ IF ~Response(w, isNull, nValues + 1).null
       THEN /\ data_log' = Append(data_log, Str(Response(w, isNull, nValues + 1)))
            /\ sigq' = Append(sigq, Str(Response(w, isNull, nValues + 1)))
       ELSE UNCHANGED <<data_log, sigq>>
    /\ watches' = [watches EXCEPT ![w].th = "sleep"]
    /\ afterStop' = IF afterStop >= 0 /\ afterStop < 2 THEN afterStop + 1 ELSE afterStop
    /\ UNCHANGED watchFrame

MainWindowNext ==
    \/ \E i \in 0..1 : select_metric(i)
    \/ \E out \in {"raise", "failed", "connected"}, supVin \in BOOLEAN,
          sup \in SupportedLists : connect_click(out, supVin, sup)
    \/ \E out \in {"raise", "failed", "connected"}, supVin \in BOOLEAN,
          sup \in SupportedLists : auto_connect(out, supVin, sup)
    \/ \E resp \in {"null", "value", "raise"}, sup \in SupportedLists :
          connect_vin_done(resp, sup)
    \/ \E out \in {"ok", "raise_ctor", "raise_start"} : start_monitoring(out)
    \/ stop_monitoring
    \/ stop_monitoring_return
    \/ \E byClose \in BOOLEAN : disconnect_from_adapter(byClose)
    \/ disconnect_return
    \/ update_data_label
    \/ \E w \in 1..MaxWatch : watch_query(w)
    \/ \E w \in 1..MaxWatch, isNull \in BOOLEAN : on_data_received(w, isNull)

\* ------------------------------------------------------------ OBDMonitor

NoCall == [name |-> "init", outs |-> << >>, queried |-> << >>, logged |-> << >>]

OBDMonitorInit ==
    /\ connection = 0
    /\ conns = [c \in 1..MaxConn |-> NoConn]
    /\ nConns = 0
    /\ status_label = "Disconnected"
    /\ connected = FALSE
    /\ metrics = [m \in Metrics |-> Unset]
    /\ metric_labels = [m \in Metrics |-> Text("--")]
    /\ timer = FALSE
    /\ connect_button_text = "Connect"
    /\ lastCall = NoCall

\* out is the outcome of obd.OBD(port): "raise", "failed" (status() is not
\* CAR_CONNECTED) or "connected"
connect_obd(out) ==
    /\ InOBDMonitor
    /\ lastCall' = [NoCall EXCEPT !.name = "connect_obd"]
    /\ UNCHANGED <<metrics, metric_labels>>
    /\ \/ /\ out = "raise"
          /\ UNCHANGED <<connection, conns, nConns, status_label, connected,
                         timer, connect_button_text>>
       \/ /\ out = "failed"
          /\ nConns < MaxConn
          /\ nConns' = nConns + 1
          /\ conns' = [conns EXCEPT ![nConns + 1] =
                          [st |-> "failed", port |-> connection_string]]
          /\ connection' = nConns + 1
          /\ UNCHANGED <<status_label, connected, timer, connect_button_text>>
       \/ /\ out = "connected"
          /\ nConns < MaxConn
          /\ nConns' = nConns + 1
          /\ conns' = [conns EXCEPT ![nConns + 1] =
                          [st |-> "open", port |-> connection_string]]
          /\ connection' = nConns + 1
          /\ connected' = TRUE
          /\ connect_button_text' = "Disconnect"
          /\ status_label' = "Connected"
          /\ timer' = TRUE

\* disconnect_obd without self.timer.stop()
disconnect_obd_timerRuns ==
    /\ InOBDMonitor
    /\ lastCall' = [NoCall EXCEPT !.name = "disconnect_obd"]
    /\ IF connection # 0
       THEN /\ conns' = [conns EXCEPT ![connection].st = "closed"]
            /\ connection' = 0
       ELSE UNCHANGED <<conns, connection>>
    /\ connected' = FALSE
    /\ connect_button_text' = "Connect"
    /\ status_label' = "Disconnected"
    /\ metric_labels' = [m \in Metrics |-> Text("--")]
    /\ UNCHANGED <<timer, nConns, metrics>>

disconnect_obd ==
    /\ InOBDMonitor
    /\ lastCall' = [NoCall EXCEPT !.name = "disconnect_obd"]
    /\ IF connection # 0
       THEN /\ timer' = FALSE
            /\ conns' = [conns EXCEPT ![connection].st = "closed"]
            /\ connection' = 0
       ELSE UNCHANGED <<timer, conns, connection>>
    /\ connected' = FALSE
    /\ connect_button_text' = "Connect"
    /\ status_label' = "Disconnected"
    /\ metric_labels' = [m \in Metrics |-> Text("--")]
    /\ UNCHANGED <<nConns, metrics>>

\* the Connect / Disconnect button
toggle_connection(out) ==
    IF connected THEN disconnect_obd ELSE connect_obd(out)

\* f"{response.value.magnitude:.1f} {response.value.units}", else str(value)
FormatValue(v) ==
    IF v.kind = "quantity"
    THEN [num |-> (v.magnitude + 5) \div 10, text |-> v.units]
    ELSE Text(v.units)

\* UpdateOne with the null branch clearing the stored value
UpdateOne_nullClears(name, out, st) ==
    IF out.res \in Raises
    THEN [st EXCEPT !.labels[name] = Text("ERR"),
                    !.queried = Append(@, name),
                    !.logged = Append(@, name)]
    ELSE IF out.res = "null"
    THEN [st EXCEPT !.metrics[name] = Unset,
                    !.labels[name] = Text("N/A"),
                    !.queried = Append(@, name)]
    ELSE [st EXCEPT !.metrics[name] = out.value,
                    !.labels[name] = FormatValue(out.value),
                    !.queried = Append(@, name)]

\* one iteration of the loop of update_metrics, for metric name with the
\* query outcome out, on the loop state st
UpdateOne(name, out, st) ==
    IF out.res \in Raises
    THEN [st EXCEPT !.labels[name] = Text("ERR"),
                    !.queried = Append(@, name),
                    !.logged = Append(@, name)]
    ELSE IF out.res = "null"
    THEN [st EXCEPT !.labels[name] = Text("N/A"),
                    !.queried = Append(@, name)]
    ELSE [st EXCEPT !.metrics[name] = out.value,
                    !.labels[name] = FormatValue(out.value),
                    !.queried = Append(@, name)]

\* UpdateLoop with the try around the loop: the first exception ends the tick
RECURSIVE UpdateLoop_tryOutside(_, _, _)
UpdateLoop_tryOutside(i, outs, st) ==
    IF i > NumMetrics THEN st
    ELSE IF outs[MetricNames[i]].res \in Raises
    THEN UpdateOne(MetricNames[i], outs[MetricNames[i]], st)
    ELSE UpdateLoop_tryOutside(i + 1, outs,
                               UpdateOne(MetricNames[i], outs[MetricNames[i]], st))

\* the loop of update_metrics from entry i of metric_widgets on
RECURSIVE UpdateLoop(_, _, _)
UpdateLoop(i, outs, st) ==
    IF i > NumMetrics THEN st
    ELSE UpdateLoop(i + 1, outs, UpdateOne(MetricNames[i], outs[MetricNames[i]], st))

\* the timer's timeout: outs[name] is what the query of name ends in
update_metrics(outs) ==
    /\ InOBDMonitor
    /\ timer
    /\ IF ~connected \/ connection = 0
       THEN /\ lastCall' = [NoCall EXCEPT !.name = "update_metrics"]
            /\ UNCHANGED <<metrics, metric_labels>>
       ELSE LET r == UpdateLoop(1, outs,
                        [labels |-> metric_labels, metrics |-> metrics,
                         queried |-> << >>, logged |-> << >>])
            IN /\ metrics' = r.metrics
               /\ metric_labels' = r.labels
               /\ lastCall' = [name |-> "update_metrics", outs |-> outs,
                               queried |-> r.queried, logged |-> r.logged]
    /\ UNCHANGED <<connection, conns, nConns, status_label, connected, timer,
                   connect_button_text>>

\* read_dtc without the early return of the connection check
read_dtc_noGuard(out) ==
    /\ InOBDMonitor
    /\ lastCall' = [name |-> "read_dtc", outs |-> <<out>>,
                    queried |-> <<"GET_DTC">>,
                    logged |-> IF out.res \in Raises THEN <<"GET_DTC">> ELSE << >>]
    /\ UNCHANGED <<connection, conns, nConns, status_label, connected, metrics,
                   metric_labels, timer, connect_button_text>>

\* the Read DTCs button; out is what the GET_DTC query ends in
read_dtc(out) ==
    /\ InOBDMonitor
    /\ IF ~connected \/ connection = 0
       THEN lastCall' = [NoCall EXCEPT !.name = "read_dtc"]
       ELSE lastCall' = [name |-> "read_dtc", outs |-> <<out>>,
                         queried |-> <<"GET_DTC">>,
                         logged |-> IF out.res \in Raises THEN <<"GET_DTC">> ELSE << >>]
    /\ UNCHANGED <<connection, conns, nConns, status_label, connected, metrics,
                   metric_labels, timer, connect_button_text>>

\* the Clear DTCs button; yes is the answer to the question box
clear_dtc(yes, out) ==
    /\ InOBDMonitor
    /\ IF ~connected \/ connection = 0 \/ ~yes
       THEN lastCall' = [NoCall EXCEPT !.name = "clear_dtc"]
       ELSE lastCall' = [name |-> "clear_dtc", outs |-> <<out>>,
                         queried |-> <<"CLEAR_DTC">>,
                         logged |-> IF out.res \in Raises THEN <<"CLEAR_DTC">> ELSE << >>]
    /\ UNCHANGED <<connection, conns, nConns, status_label, connected, metrics,
                   metric_labels, timer, connect_button_text>>

\* what the queries of one tick end in; no tick while the timer is stopped
TickOutcomes == IF timer THEN [Metrics -> Outcomes] ELSE {}

OBDMonitorNext ==
    \/ \E out \in {"raise", "failed", "connected"} : toggle_connection(out)
    \/ \E outs \in TickOutcomes : update_metrics(outs)
    \/ \E out \in Outcomes : read_dtc(out)
    \/ \E yes \in BOOLEAN, out \in Outcomes : clear_dtc(yes, out)

\* the fields of the program that does not run keep their initial values
Init ==
    \/ /\ prog = "MainWindow"
       /\ MainWindowInit
       /\ connected = FALSE
       /\ metrics = [m \in Metrics |-> Unset]
       /\ metric_labels = [m \in Metrics |-> Text("--")]
       /\ timer = FALSE
       /\ connect_button_text = "Connect"
       /\ lastCall = NoCall
    \/ /\ prog = "OBDMonitor"
       /\ OBDMonitorInit
       /\ async_connection = 0
       /\ data_log = << >>
       /\ data_label = DataNA
       /\ connect_button = TRUE
       /\ disconnect_button = FALSE
       /\ start_button = FALSE
       /\ stop_button = FALSE
       /\ metrics_combo = [items |-> <<"Select a metric">>, index |-> 0]
       /\ guiPc = "idle"
       /\ closing = FALSE
       /\ timerPending = FALSE
       /\ watches = [w \in 1..MaxWatch |-> NoWatch]
       /\ nWatches = 0
       /\ sigq = << >>
       /\ nDone = 0
       /\ shown = << >>
       /\ nValues = 0
       /\ afterStop = -1

Next == MainWindowNext \/ OBDMonitorNext

Spec == Init /\ [][Next]_vars

\* ================================================================ claims

Watches == 1..MaxWatch
\* the watches whose loop has been started and not stopped
RunningWatches == {w \in Watches : watches[w].running}
\* watch w completes a query and its thread calls on_data_received
CallbackStep(w) == watches[w].th = "query" /\ watches'[w].th = "sleep"

\* C1: the VIN query of connect_to_adapter is never in flight while a watch
\* loop has a query in flight on the same port.
C1_NoForegroundWatchOverlap ==
    prog = "MainWindow" =>
        ~(/\ guiPc = "connect_vin"
          /\ \E w \in Watches : /\ watches[w].th = "query"
                                /\ watches[w].port = conns[connection].port)

\* C2: start_monitoring invoked while async_connection holds a running watch
\* fails: it creates no watch, async_connection still refers to the first
\* watch and that watch is left as it was.
C2_SecondStartFails ==
    [][(/\ prog = "MainWindow"
        /\ async_connection > 0
        /\ async_connection \in RunningWatches
        /\ \E out \in {"ok", "raise_ctor", "raise_start"} : start_monitoring(out))
       => /\ async_connection' = async_connection
          /\ watches' = watches
          /\ nWatches' = nWatches]_vars

\* C3: at most one watch loop is started and not yet stopped.
C3_AtMostOneWatchLoop ==
    prog = "MainWindow" => Cardinality(RunningWatches) <= 1

\* C4: after stop() has returned and until monitoring is started again,
\* on_data_received is invoked at most once.
C4_NoCallbackAfterStop ==
    prog = "MainWindow" => afterStop <= 1

\* the queries of the last update_metrics that ended in a lost connection
TransportFailures ==
    {m \in DOMAIN lastCall.outs : lastCall.outs[m].res = "transport"}

\* C5: when a query of update_metrics finds the connection lost, polling is
\* ended (timer stopped, connected cleared) and the loss is reported once.
C5_TransportErrorEndsPolling ==
    (/\ prog = "OBDMonitor"
     /\ lastCall.name = "update_metrics"
     /\ TransportFailures # {})
    => /\ ~timer
       /\ ~connected
       /\ Cardinality(TransportFailures) = 1

\* C6: a connection that was opened and not closed is the one self.connection
\* holds: none is overwritten unclosed, none is left open by a disconnect.
C6_NoConnectionLeft ==
    \A c \in 1..MaxConn : conns[c].st = "open" => connection = c

\* the entries of one watch are in the order its queries completed
PerWatchOrdered(log) ==
    \A i, j \in 1..Len(log) :
        (i < j /\ log[i].w = log[j].w) => log[i].k < log[j].k

\* C7: the values of a watch are appended to data_log, and shown by
\* update_data_label, in the order in which its queries completed.
C7_WatchFIFO ==
    prog = "MainWindow" => /\ PerWatchOrdered(data_log)
                           /\ PerWatchOrdered(shown)
                           /\ PerWatchOrdered(shown \o sigq)

\* C7 witness: two values of one watch were logged and both were shown.
C7_Witness ==
    /\ prog = "MainWindow"
    /\ Len(shown) >= 2
    /\ Len(data_log) >= 2
    /\ shown[1].w = shown[2].w
    /\ shown[1].k < shown[2].k

\* C8: while a watch is held in async_connection, on_data_received is called
\* only with responses for the command of that watch.
C8_OnlyOwnCommand ==
    [][\A w \in Watches :
          (prog = "MainWindow" /\ CallbackStep(w) /\ async_connection > 0)
          => watches[w].cmd = watches[async_connection].cmd]_vars

\* a step of update_metrics that went through its loop
UpdateStep ==
    /\ prog = "OBDMonitor"
    /\ lastCall'.name = "update_metrics"
    /\ lastCall'.queried # << >>

\* C9: when a query of update_metrics raises, the label of that metric
\* becomes 'ERR' and the error is logged, every metric of the tick is still
\* queried, and connected, connection and the timer are unchanged.
C9_QueryErrorIsRecoverable ==
    [][UpdateStep =>
        \A m \in Metrics :
            lastCall'.outs[m].res \in Raises
            => /\ metric_labels'[m] = Text("ERR")
               /\ \E i \in 1..Len(lastCall'.logged) : lastCall'.logged[i] = m
               /\ lastCall'.queried = [i \in 1..NumMetrics |-> MetricNames[i]]
               /\ connected' = connected
               /\ connection' = connection
               /\ timer' = timer]_vars

\* C9 witness: the first query of a tick raised, the second returned a value
\* that is stored and displayed, and polling goes on.
C9_Witness ==
    /\ prog = "OBDMonitor"
    /\ lastCall.name = "update_metrics"
    /\ lastCall.outs[MetricNames[1]].res \in Raises
    /\ lastCall.outs[MetricNames[2]].res = "value"
    /\ metric_labels[MetricNames[1]] = Text("ERR")
    /\ metrics[MetricNames[2]] = lastCall.outs[MetricNames[2]].value
    /\ timer /\ connected

\* C10: a null response changes no stored data: update_metrics sets the label
\* to 'N/A' and leaves the entry of self.metrics as it was; on_data_received
\* appends nothing to data_log and emits no data_updated signal.
C10_NullChangesNoData ==
    [][/\ UpdateStep =>
            \A m \in Metrics :
                lastCall'.outs[m].res = "null"
                => /\ metric_labels'[m] = Text("N/A")
                   /\ metrics'[m] = metrics[m]
       /\ (prog = "MainWindow" /\ nDone' = nDone + 1 /\ nValues' = nValues)
            => /\ data_log' = data_log
               /\ sigq' = sigq]_vars

\* C10 witness: a watch delivered a value and then a null response, and the
\* log still holds exactly the value.
C10_Witness ==
    /\ prog = "MainWindow"
    /\ nDone = 2
    /\ nValues = 1
    /\ Len(data_log) = 1
    /\ data_log[1].k = 1
    /\ Len(shown \o sigq) = 1

\* a step in which disconnect_from_adapter (from the button or closeEvent)
\* runs to its end
DisconnectStep == guiPc = "disconnect_join" /\ guiPc' # "disconnect_join"

\* C11: whenever async_connection is not None, self.connection is not None;
\* disconnect_from_adapter and closeEvent close the connection only when the
\* watch async_connection holds has stopped, and end with both fields None.
C11_SubscriptionOnHeldConnection ==
    /\ [](prog = "MainWindow" => (async_connection # 0 => connection # 0))
    /\ [][(prog = "MainWindow" /\ DisconnectStep)
          => /\ async_connection' = 0
             /\ connection' = 0
             /\ \A c \in 1..MaxConn : connection = c => conns'[c].st = "closed"
             /\ async_connection > 0
                  => /\ ~watches[async_connection].running
                     /\ watches[async_connection].th # "query"
                     /\ watches'[async_connection].th = "dead"]_vars

\* C11 witness: Disconnect was clicked while the held watch has a query in
\* flight: stop() waits for it and the connection is still open.
C11_Witness ==
    /\ prog = "MainWindow"
    /\ guiPc = "disconnect_join"
    /\ async_connection > 0
    /\ watches[async_connection].th = "query"
    /\ connection # 0
    /\ conns[connection].st = "open"

\* a step of one of the handlers of OBDMonitor that query the vehicle
QueryHandlerStep ==
    /\ prog = "OBDMonitor"
    /\ lastCall'.name \in {"update_metrics", "read_dtc", "clear_dtc"}

\* C12: update_metrics, read_dtc and clear_dtc send a query only when
\* connected is True and connection is not None; otherwise they return with
\* no query sent and connected, connection, metrics and the timer unchanged.
C12_NoQueryWhileDisconnected ==
    [][QueryHandlerStep =>
        /\ lastCall'.queried # << >>
             => (connected /\ connection # 0 /\ conns[connection].st = "open")
        /\ ~(connected /\ connection # 0)
             => /\ lastCall'.queried = << >>
                /\ connected' = connected
                /\ connection' = connection
                /\ metrics' = metrics
                /\ timer' = timer]_vars

\* C12 witness: after a connection that was used for a tick and then closed,
\* Read DTCs was clicked while disconnected and returned with no query sent.
C12_Witness ==
    /\ prog = "OBDMonitor"
    /\ lastCall.name = "read_dtc"
    /\ lastCall.queried = << >>
    /\ ~connected
    /\ connection = 0
    /\ \E m \in Metrics : metrics[m] # Unset

\* C13: in OBDMonitor the polling timer is active exactly when connected is
\* True, and connected is True only when connection is not None.
C13_TimerIffConnected ==
    prog = "OBDMonitor" => /\ timer <=> connected
                           /\ connected => connection # 0

\* C13 witness: a connect attempt succeeded after an earlier connection was
\* closed or had failed, and the timer runs.
C13_Witness ==
    /\ prog = "OBDMonitor"
    /\ lastCall.name = "connect_obd"
    /\ nConns = 2
    /\ connected
    /\ timer
    /\ connection = 2

\* the state in which start_monitoring may leave the program
AllOrNothing ==
    \/ /\ async_connection > 0
       /\ watches[async_connection].running
       /\ ~start_button
       /\ stop_button
    \/ /\ RunningWatches = {}
       /\ async_connection = 0
       /\ ~stop_button

\* Start Monitoring can be clicked and start_monitoring returns at its
\* connection check or its metric check, leaving the state as it is
StartReturnsEarly ==
    /\ prog = "MainWindow"
    /\ guiPc = "idle"
    /\ start_button
    /\ \/ connection = 0
       \/ conns[connection].st # "open"
       \/ currentText = "Select a metric"
       \/ currentText = ""

\* start_monitoring returns from its try block, or from the stop_monitoring
\* of its exception handler
StartReturnStep ==
    /\ prog = "MainWindow"
    /\ \/ guiPc = "idle" /\ nWatches' = nWatches + 1
       \/ guiPc = "stop_join" /\ guiPc' = "idle"

\* C14: when start_monitoring returns, either the watch async_connection
\* holds is running with the start button disabled and the stop button
\* enabled, or no watch is running, async_connection is None and the stop
\* button is disabled; this also holds when it returns early (not connected,
\* no metric selected) and when starting raises and stop_monitoring runs.
C14_StartAllOrNothing ==
    /\ [](StartReturnsEarly => AllOrNothing)
    /\ [][StartReturnStep => AllOrNothing']_vars

\* C15: between two handlers of MainWindow, the start and the stop button are
\* never both enabled, the stop button is enabled exactly when
\* async_connection is not None, and the start button is enabled only when
\* self.connection is not None.
C15_ButtonsMatchState ==
    (prog = "MainWindow" /\ guiPc = "idle")
    => /\ ~(start_button /\ stop_button)
       /\ stop_button <=> async_connection # 0
       /\ start_button => connection # 0

\* C16: whenever the status label reads 'Status: Disconnected', MainWindow
\* holds no open connection (self.connection is None or not connected) and
\* the connect button is enabled.
C16_DisconnectedLabelIsTrue ==
    (prog = "MainWindow" /\ status_label = "Status: Disconnected")
    => /\ connection = 0 \/ conns[connection].st # "open"
       /\ connect_button

\* C17: while monitoring is not active (async_connection is None), the data
\* label that reads 'Data: N/A' keeps that text: no data_updated signal
\* emitted before stop_monitoring or disconnect_from_adapter and delivered
\* after it overwrites the label.
C17_LabelStaysNA ==
    [][(/\ prog = "MainWindow"
        /\ async_connection = 0
        /\ async_connection' = 0
        /\ data_label = DataNA)
       => data_label' = DataNA]_vars
====
